---- MODULE Spec2Model ----
(***************************************************************************)
(* A model of warmup_tool/main.py: the lift selection, the relevant-area   *)
(* resolver, the assessment loop with its prompt, and the warmup-plan      *)
(* generator.                                                              *)
(*                                                                         *)
(* Conventions.  Rows of the table are numbered 1..n here (pandas numbers  *)
(* them 0..n-1; read_csv gives a RangeIndex, so the label iterrows yields  *)
(* is the position iloc reads).  A solution text is the number 10*row+slot *)
(* and a missing cell (NaN) is the number 0.                               *)
(***************************************************************************)
EXTENDS Integers, Sequences, FiniteSets, TLC

VARIABLES pc, assessment_data, selected_lifts, relevant_areas, announced,
          index, response, lastInput, invalidRun, failed_tests,
          displayed, prompted, outcomes, calls, output

vars == <<pc, assessment_data, selected_lifts, relevant_areas, announced,
          index, response, lastInput, invalidRun, failed_tests,
          displayed, prompted, outcomes, calls, output>>

-----------------------------------------------------------------------------
(* Bounds of the model *)

\* longest table of the whole-program specification
MaxRows == 3

\* most consecutive invalid answers at one prompt
MaxInvalid == 2

\* longest table handed to the generator in PlanSpec
PlanRows == 9

-----------------------------------------------------------------------------
(* The fixed tables *)

LIFT_SPECIFIC_TESTS ==
  [squat |-> <<"Ankle Mobility", "Hip Flexion", "Hip Internal Rotation",
               "Hip External Rotation", "Thoracic Extension",
               "Shoulder Internal Rotation", "Lat Flexibility",
               "Bracing Ability", "Anterior Core Control",
               "Hip Hinge Pattern", "Squat Pattern">>,
   bench |-> <<"Shoulder External Rotation", "Shoulder Internal Rotation",
               "Thoracic Extension", "Lat Flexibility", "Wrist Mobility",
               "Bracing Ability", "Bench Setup">>,
   deadlift |-> <<"Hip Flexion", "Hamstring Flexibility", "Lat Flexibility",
                  "Wrist Mobility", "Bracing Ability",
                  "Anterior Core Control", "Hip Hinge Pattern",
                  "Deadlift Setup">>]

FUNDAMENTAL_TESTS == <<"General Pain Assessment", "Muscle Soreness", "CNS Fatigue">>

NaN == 0

\* what the console can deliver at a prompt
RawInputs == {"y", "Y", "n", "N", "skip", "SKIP", "maybe", ""}

\* str.lower()
Lower(s) ==
  CASE s = "Y" -> "y"
    [] s = "N" -> "n"
    [] s = "SKIP" -> "skip"
    [] OTHER -> s

ToSet(seq) == {seq[i] : i \in DOMAIN seq}

InList(x, seq) == \E i \in DOMAIN seq : seq[i] = x

-----------------------------------------------------------------------------
(* The tables the program may load *)

\* a row of the table: its area and whether its Solution_4 cell is filled
RowKinds ==
  {[Area |-> "Muscle Soreness", tip |-> TRUE],
   [Area |-> "Hip Flexion", tip |-> TRUE],
   [Area |-> "Bench Setup", tip |-> FALSE],
   [Area |-> "Grip Strength", tip |-> TRUE]}

Row(i, kind) ==
  [Area |-> kind.Area, Test |-> i,
   Solution_1 |-> 10 * i + 1, Solution_2 |-> 10 * i + 2,
   Solution_3 |-> 10 * i + 3,
   Solution_4 |-> IF kind.tip THEN 10 * i + 4 ELSE NaN]

Table(kinds) == [i \in DOMAIN kinds |-> Row(i, kinds[i])]

Catalogs == UNION {{Table(k) : k \in [1..n -> RowKinds]} : n \in 0..MaxRows}

\* a longer sample table: the row kinds below, repeated
SampleKinds ==
  <<[Area |-> "Hip Flexion", tip |-> TRUE],
    [Area |-> "Hip Flexion", tip |-> FALSE],
    [Area |-> "Muscle Soreness", tip |-> TRUE],
    [Area |-> "Bench Setup", tip |-> FALSE],
    [Area |-> "Hip Flexion", tip |-> TRUE],
    [Area |-> "Hip Flexion", tip |-> TRUE],
    [Area |-> "Bench Setup", tip |-> TRUE],
    [Area |-> "Lat Flexibility", tip |-> TRUE],
    [Area |-> "Grip Strength", tip |-> TRUE]>>

SampleTable(n) ==
  [i \in 1..n |-> Row(i, SampleKinds[((i - 1) % Len(SampleKinds)) + 1])]

-----------------------------------------------------------------------------
(* select_lifts *)

select_lifts(squat, bench, deadlift) ==
  (IF Lower(squat) = "y" THEN <<"squat">> ELSE <<>>)
    \o (IF Lower(bench) = "y" THEN <<"bench">> ELSE <<>>)
    \o (IF Lower(deadlift) = "y" THEN <<"deadlift">> ELSE <<>>)

(* get_relevant_tests *)

RECURSIVE AddTests(_, _, _)
AddTests(areas, tests, i) ==
  IF i > Len(tests) THEN areas
  ELSE AddTests(areas \cup {tests[i]}, tests, i + 1)

RECURSIVE AddLifts(_, _, _)
AddLifts(areas, lifts, k) ==
  IF k > Len(lifts) THEN areas
  ELSE AddLifts(AddTests(areas, LIFT_SPECIFIC_TESTS[lifts[k]], 1), lifts, k + 1)

\* the resolver started from an empty set instead of set(FUNDAMENTAL_TESTS)
get_relevant_tests_empty_start(lifts) == AddLifts({}, lifts, 1)

get_relevant_tests(lifts) == AddLifts(ToSet(FUNDAMENTAL_TESTS), lifts, 1)

-----------------------------------------------------------------------------
(* The pieces of the assessment loop *)

\* the for loop ending one row early
LoopExhausted_early(i, data) == i >= Len(data)

\* the for loop of run_assessment has no row left
LoopExhausted(i, data) == i > Len(data)

\* the filter dropped: every row is shown
IsRelevantRow_all(area, areas) == TRUE

\* "if area not in relevant_areas: continue", negated
IsRelevantRow(area, areas) == area \in areas

\* any non-empty answer accepted
IsValid_nonempty(r) == r # ""

\* response in ["y", "n", "skip"]
IsValid(r) == r \in {"y", "n", "skip"}

\* every answer but "n" counted as a failure
NewFailed_not_n(failed, i, r) == IF r # "n" THEN Append(failed, i) ELSE failed

\* if response == "y": failed_tests.append(index)
NewFailed(failed, i, r) == IF r = "y" THEN Append(failed, i) ELSE failed

-----------------------------------------------------------------------------
(* generate_warmup_plan *)

MaxExercises == 5

Min(a, b) == IF a <= b THEN a ELSE b

\* the all-passed path also taken for a single failure
AllPassed_one(failed_indices) == Len(failed_indices) <= 1

\* "if not failed_indices"
AllPassed(failed_indices) == failed_indices = <<>>

\* area_counts, a dict, as the sequence of its items in insertion order
Bump(acc, area) ==
  IF \E j \in DOMAIN acc : acc[j][1] = area
  THEN [j \in DOMAIN acc |->
          IF acc[j][1] = area THEN <<area, acc[j][2] + 1>> ELSE acc[j]]
  ELSE Append(acc, <<area, 1>>)

RECURSIVE CountAreas(_, _, _, _)
CountAreas(data, failed_indices, k, acc) ==
  IF k > Len(failed_indices) THEN acc
  ELSE CountAreas(data, failed_indices, k + 1,
                  Bump(acc, data[failed_indices[k]].Area))

\* an item put before the items of equal count: ties come out reversed
InsertDesc_before_equal(x, s) ==
  LET p == Cardinality({j \in DOMAIN s : s[j][2] > x[2]})
  IN SubSeq(s, 1, p) \o <<x>> \o SubSeq(s, p + 1, Len(s))

\* s is sorted by count, descending; x goes after the items of equal count
InsertDesc(x, s) ==
  LET p == Cardinality({j \in DOMAIN s : s[j][2] >= x[2]})
  IN SubSeq(s, 1, p) \o <<x>> \o SubSeq(s, p + 1, Len(s))

RECURSIVE SortDesc(_, _, _)
SortDesc(items, k, acc) ==
  IF k > Len(items) THEN acc
  ELSE SortDesc(items, k + 1, InsertDesc(items[k], acc))

\* sorted(area_counts.items(), key=lambda x: x[1], reverse=True): a stable sort
sorted_by_count(items) == SortDesc(items, 1, <<>>)

\* no cap on the number of blocks
NumExercises_uncapped(failed_indices) == Len(failed_indices)

\* num_exercises
NumExercises(failed_indices) == Min(MaxExercises, Len(failed_indices))

Solution(row, j) ==
  CASE j = 1 -> row.Solution_1
    [] j = 2 -> row.Solution_2
    [] j = 3 -> row.Solution_3
    [] j = 4 -> row.Solution_4

\* one corrective-exercise block
Block(data, idx) ==
  [idx |-> idx, Area |-> data[idx].Area, Test |-> data[idx].Test,
   solutions |-> [j \in 1..3 |-> <<j, Solution(data[idx], j)>>]]

Blocks(data, failed_indices) ==
  [i \in 1..NumExercises(failed_indices) |-> Block(data, failed_indices[i])]

\* the advice given to the first lift whose list has the area, and to no other
TipLifts_first_only(area, lifts) ==
  LET m == SelectSeq(lifts, LAMBDA l : InList(area, LIFT_SPECIFIC_TESTS[l]))
  IN IF m = <<>> THEN <<>> ELSE <<m[1]>>

\* the selected lifts whose list has the area
TipLifts(area, lifts) ==
  SelectSeq(lifts, LAMBDA l : InList(area, LIFT_SPECIFIC_TESTS[l]))

\* lift_specific_tips once the loop over failed_indices has run
RECURSIVE CollectTips(_, _, _, _, _)
CollectTips(data, failed_indices, lifts, k, tips) ==
  IF k > Len(failed_indices) THEN tips
  ELSE LET row == data[failed_indices[k]]
           to == TipLifts(row.Area, lifts)
       IN CollectTips(data, failed_indices, lifts, k + 1,
            IF row.Solution_4 # NaN
            THEN [l \in DOMAIN tips |->
                    IF InList(l, to)
                    THEN Append(tips[l], <<row.Area, row.Solution_4>>)
                    ELSE tips[l]]
            ELSE tips)

\* the "For <lift>:" sections
TipSections(lifts, tips) ==
  LET shown == SelectSeq(lifts, LAMBDA l : tips[l] # <<>>)
  IN [i \in DOMAIN shown |-> [lift |-> shown[i], lines |-> tips[shown[i]]]]

Progressions(number, lifts) == [i \in DOMAIN lifts |-> <<number, lifts[i]>>]

NoOutput ==
  [path |-> "none", sections |-> <<>>, cardio |-> FALSE,
   sorted_areas |-> <<>>, issues |-> <<>>, blocks |-> <<>>,
   progressions |-> <<>>, tips |-> <<>>]

\* what generate_warmup_plan prints
generate_warmup_plan(data, failed_indices, lifts) ==
  IF AllPassed(failed_indices)
  THEN [path |-> "all_passed",
        sections |-> <<"YOUR WARMUP PLAN">>,
        cardio |-> TRUE,
        sorted_areas |-> <<>>, issues |-> <<>>, blocks |-> <<>>,
        progressions |-> Progressions(2, lifts),
        tips |-> <<>>]
  ELSE LET sorted_areas == sorted_by_count(CountAreas(data, failed_indices, 1, <<>>))
       IN [path |-> "customized",
           sections |-> <<"YOUR CUSTOMIZED WARMUP PLAN", "top issues",
                          "corrective exercises", "IMPLEMENTATION NOTES">>,
           cardio |-> TRUE,
           sorted_areas |-> sorted_areas,
           issues |-> [i \in DOMAIN sorted_areas |-> sorted_areas[i][1]],
           blocks |-> Blocks(data, failed_indices),
           progressions |-> Progressions(3, lifts),
           tips |-> TipSections(lifts,
                      CollectTips(data, failed_indices, lifts, 1,
                                  [l \in ToSet(lifts) |-> <<>>]))]

-----------------------------------------------------------------------------
(* The program *)

Init ==
  /\ pc = "load"
  /\ assessment_data = <<>>
  /\ selected_lifts = <<>>
  /\ relevant_areas = {}
  /\ announced = 0
  /\ index = 1
  /\ response = ""
  /\ lastInput = ""
  /\ invalidRun = 0
  /\ failed_tests = <<>>
  /\ displayed = <<>>
  /\ prompted = {}
  /\ outcomes = <<>>
  /\ calls = <<>>
  /\ output = NoOutput

\* load_assessment_data and the "is None" test of run_assessment
Load ==
  /\ pc = "load"
  /\ \/ /\ pc' = "aborted"
        /\ UNCHANGED assessment_data
     \/ /\ \E c \in Catalogs : assessment_data' = c
        /\ pc' = "select"
  /\ UNCHANGED <<selected_lifts, relevant_areas, announced, index, response,
                 lastInput, invalidRun, failed_tests, displayed, prompted,
                 outcomes, calls, output>>

\* run_assessment from the lift selection to the start of the loop
SelectLifts ==
  /\ pc = "select"
  /\ \E squat \in RawInputs, bench \in RawInputs, deadlift \in RawInputs :
       selected_lifts' = select_lifts(squat, bench, deadlift)
  /\ relevant_areas' = get_relevant_tests(selected_lifts')
  /\ announced' = Cardinality(relevant_areas')
  /\ failed_tests' = <<>>
  /\ index' = 1
  /\ pc' = "iter"
  /\ UNCHANGED <<assessment_data, response, lastInput, invalidRun, displayed,
                 prompted, outcomes, calls, output>>

\* one turn of the for loop, up to the first prompt of a relevant row
NextRow ==
  /\ pc = "iter"
  /\ IF LoopExhausted(index, assessment_data)
     THEN /\ pc' = "generate"
          /\ UNCHANGED <<index, displayed, invalidRun>>
     ELSE IF ~IsRelevantRow(assessment_data[index].Area, relevant_areas)
     THEN /\ index' = index + 1
          /\ UNCHANGED <<pc, displayed, invalidRun>>
     ELSE /\ displayed' = Append(displayed, index)
          /\ invalidRun' = 0
          /\ pc' = "prompt"
          /\ UNCHANGED index
  /\ UNCHANGED <<assessment_data, selected_lifts, relevant_areas, announced,
                 response, lastInput, failed_tests, prompted, outcomes, calls,
                 output>>

\* one turn of the while loop: the answer r is read
Prompt(r) ==
  /\ pc = "prompt"
  /\ lastInput' = r
  /\ response' = Lower(r)
  /\ prompted' = prompted \cup {index}
  /\ IF IsValid(response')
     THEN /\ failed_tests' = NewFailed(failed_tests, index, response')
          /\ outcomes' = Append(outcomes, <<index, response'>>)
          /\ index' = index + 1
          /\ invalidRun' = 0
          /\ pc' = "iter"
     ELSE /\ invalidRun < MaxInvalid
          /\ invalidRun' = invalidRun + 1
          /\ UNCHANGED <<failed_tests, outcomes, index, pc>>
  /\ UNCHANGED <<assessment_data, selected_lifts, relevant_areas, announced,
                 displayed, calls, output>>

PromptValid == \E r \in RawInputs : IsValid(Lower(r)) /\ Prompt(r)

PromptInvalid == \E r \in RawInputs : ~IsValid(Lower(r)) /\ Prompt(r)

\* the call of generate_warmup_plan that ends run_assessment
Generate ==
  /\ pc = "generate"
  /\ calls' = Append(calls, failed_tests)
  /\ output' = generate_warmup_plan(assessment_data, failed_tests, selected_lifts)
  /\ pc' = "done"
  /\ UNCHANGED <<assessment_data, selected_lifts, relevant_areas, announced,
                 index, response, lastInput, invalidRun, failed_tests,
                 displayed, prompted, outcomes>>

Next == Load \/ SelectLifts \/ NextRow \/ PromptValid \/ PromptInvalid \/ Generate

Spec == Init /\ [][Next]_vars

\* every prompt is answered validly in the end, and the program keeps running
LiveSpec ==
  /\ Init
  /\ [][Next]_vars
  /\ WF_vars(SelectLifts)
  /\ WF_vars(NextRow)
  /\ WF_vars(PromptValid)
  /\ WF_vars(Generate)

-----------------------------------------------------------------------------
(* The generator alone, on the arguments run_assessment can hand it *)

LiftSelections == {select_lifts(s, b, d) : s \in {"y", "n"}, b \in {"y", "n"}, d \in {"y", "n"}}

InitPlan ==
  \E n \in 0..PlanRows, lifts \in LiftSelections :
    LET data == SampleTable(n)
        areas == get_relevant_tests(lifts)
        shown == SelectSeq([i \in 1..n |-> i],
                           LAMBDA i : IsRelevantRow(data[i].Area, areas))
    IN \E F \in SUBSET ToSet(shown) :
         /\ pc = "generate"
         /\ assessment_data = data
         /\ selected_lifts = lifts
         /\ relevant_areas = areas
         /\ announced = Cardinality(areas)
         /\ index = n + 1
         /\ displayed = shown
         /\ prompted = ToSet(shown)
         /\ outcomes = [k \in DOMAIN shown |->
                          <<shown[k], IF shown[k] \in F THEN "y" ELSE "n">>]
         /\ failed_tests = SelectSeq(shown, LAMBDA i : i \in F)
         /\ response = (IF shown = <<>> THEN ""
                        ELSE IF shown[Len(shown)] \in F THEN "y" ELSE "n")
         /\ lastInput = response
         /\ invalidRun = 0
         /\ calls = <<>>
         /\ output = NoOutput

NextPlan == Generate

PlanSpec == InitPlan /\ [][NextPlan]_vars


-----------------------------------------------------------------------------
(* What the claims are stated with *)

Lifts == {"squat", "bench", "deadlift"}

Fundamental == {"General Pain Assessment", "Muscle Soreness", "CNS Fatigue"}

AllAreas ==
  Fundamental \cup {k.Area : k \in RowKinds} \cup {SampleKinds[i].Area : i \in DOMAIN SampleKinds}
    \cup UNION {ToSet(LIFT_SPECIFIC_TESTS[l]) : l \in Lifts}

\* the relevant areas of a selection, as the specification defines them
RelevantAreaSet(lifts) ==
  {a \in AllAreas : a \in Fundamental
                     \/ \E l \in ToSet(lifts) : InList(a, LIFT_SPECIFIC_TESTS[l])}

Started == pc \in {"iter", "prompt", "generate", "done"}

LoopOver == pc \in {"generate", "done"}

\* the rows the for loop has reached so far
Reached == IF pc = "prompt" THEN index ELSE index - 1

\* the displayed rows whose prompt has been answered validly
Answered ==
  IF pc = "prompt" THEN SubSeq(displayed, 1, Len(displayed) - 1) ELSE displayed

IsIncreasing(s) == \A i \in DOMAIN s, j \in DOMAIN s : i < j => s[i] < s[j]

FailedAreas == [k \in DOMAIN failed_tests |-> assessment_data[failed_tests[k]].Area]

FailedCount(a) == Cardinality({k \in DOMAIN FailedAreas : FailedAreas[k] = a})

FirstFailed(a) ==
  CHOOSE k \in DOMAIN FailedAreas :
    /\ FailedAreas[k] = a
    /\ \A m \in DOMAIN FailedAreas : FailedAreas[m] = a => k <= m

RECURSIVE SumCounts(_, _)
SumCounts(items, k) ==
  IF k > Len(items) THEN 0 ELSE items[k][2] + SumCounts(items, k + 1)

Customized == pc = "done" /\ failed_tests # <<>>

-----------------------------------------------------------------------------
(* C1: once the lifts are selected, relevant_areas holds exactly the areas   *)
(* that are fundamental or in the list of a selected lift; it contains the   *)
(* 3 fundamental areas, and is exactly those when no lift is selected.       *)
C1_RelevantAreas ==
  Started =>
    /\ relevant_areas \subseteq AllAreas
    /\ \A a \in AllAreas :
         a \in relevant_areas <=>
           (InList(a, FUNDAMENTAL_TESTS)
              \/ \E l \in Lifts : InList(l, selected_lifts)
                                   /\ InList(a, LIFT_SPECIFIC_TESTS[l]))
    /\ Fundamental \subseteq relevant_areas
    /\ Cardinality(Fundamental) = 3
    /\ (selected_lifts = <<>> => relevant_areas = Fundamental)

C1_Witness ==
  /\ pc = "iter"
  /\ selected_lifts = <<"bench", "deadlift">>
  /\ "Bench Setup" \in relevant_areas
  /\ "Deadlift Setup" \in relevant_areas
  /\ "Squat Pattern" \notin relevant_areas
  /\ Cardinality(relevant_areas) = 15

(* C2: the rows displayed are exactly the rows reached so far whose area is  *)
(* relevant to the selection, in table order, each once; only displayed rows *)
(* are prompted or enter failed_tests; the loop ends with every row reached; *)
(* with no lift selected only fundamental-area rows are prompted.            *)
C2_DisplayedRows ==
  /\ ~Started => displayed = <<>> /\ prompted = {} /\ failed_tests = <<>>
  /\ Started =>
       /\ displayed = SelectSeq([i \in 1..Reached |-> i],
                         LAMBDA i : assessment_data[i].Area
                                      \in RelevantAreaSet(selected_lifts))
       /\ prompted \subseteq ToSet(displayed)
       /\ ToSet(failed_tests) \subseteq ToSet(displayed)
       /\ (LoopOver => Reached = Len(assessment_data))
       /\ (selected_lifts = <<>> =>
             \A i \in prompted : assessment_data[i].Area \in Fundamental)

C2_Witness ==
  /\ pc = "done"
  /\ Len(assessment_data) = 3
  /\ assessment_data[2].Area \notin relevant_areas
  /\ displayed = <<1, 3>>
  /\ prompted = {1, 3}

(* C3, the claim as written: the accepted outcome of every answered row is   *)
(* recorded, that is, the program's state after the loop still tells it:     *)
(* failed_tests for a failure, and otherwise only the variable response,     *)
(* which holds the last answer.                                              *)
C3_OutcomeRecorded ==
  LoopOver =>
    \A k \in DOMAIN outcomes :
      outcomes[k][2] =
        (IF InList(outcomes[k][1], failed_tests) THEN "y"
         ELSE IF k = Len(outcomes) THEN response
         ELSE "not recorded")

(* C3, amended: every answered row has exactly one accepted outcome among    *)
(* y, n and skip; failed_tests holds the indices of the rows answered y,     *)
(* and only those, each once, in table order.                                *)
C3_FailedList ==
  /\ [k \in DOMAIN outcomes |-> outcomes[k][1]] = Answered
  /\ IsIncreasing(Answered)
  /\ \A k \in DOMAIN outcomes : outcomes[k][2] \in {"y", "n", "skip"}
  /\ LET ys == SelectSeq(outcomes, LAMBDA o : o[2] = "y")
     IN failed_tests = [k \in DOMAIN ys |-> ys[k][1]]
  /\ IsIncreasing(failed_tests)
  /\ \A i \in ToSet(Answered) :
       InList(i, failed_tests) <=> InList(<<i, "y">>, outcomes)

C3_Witness ==
  /\ pc = "done"
  /\ outcomes = <<<<1, "y">>, <<2, "skip">>, <<3, "y">>>>
  /\ failed_tests = <<1, 3>>

(* C4: an answer that is not a spelling of y, n or skip leaves the program   *)
(* at the prompt of the same row, with failed_tests and the rows displayed   *)
(* and answered unchanged, and the run neither aborted nor finished.         *)
C4_Reprompt ==
  [][(pc = "prompt" /\ lastInput' \notin {"y", "Y", "n", "N", "skip", "SKIP"})
       => /\ pc' = "prompt"
          /\ index' = index
          /\ failed_tests' = failed_tests
          /\ displayed' = displayed
          /\ outcomes' = outcomes
          /\ calls' = calls
          /\ index \in prompted']_vars

C4_Witness ==
  /\ pc = "prompt"
  /\ invalidRun = MaxInvalid
  /\ invalidRun >= 2
  /\ lastInput = "maybe"
  /\ index = 2
  /\ failed_tests = <<1>>

(* C5: the plan is the all-passed template exactly when failed_tests is      *)
(* empty: the cardio line and one progression per selected lift in selection *)
(* order, no top issues, no corrective block, no implementation notes;       *)
(* otherwise it is the customized plan.  No relevant row gives the template. *)
C5_AllPassedPath ==
  pc = "done" =>
    /\ (failed_tests = <<>>) <=> (output.path = "all_passed")
    /\ failed_tests = <<>> =>
         output = [path |-> "all_passed",
                   sections |-> <<"YOUR WARMUP PLAN">>,
                   cardio |-> TRUE,
                   sorted_areas |-> <<>>, issues |-> <<>>, blocks |-> <<>>,
                   progressions |->
                     [i \in DOMAIN selected_lifts |-> <<2, selected_lifts[i]>>],
                   tips |-> <<>>]
    /\ failed_tests # <<>> =>
         /\ output.path = "customized"
         /\ InList("top issues", output.sections)
         /\ InList("corrective exercises", output.sections)
         /\ InList("IMPLEMENTATION NOTES", output.sections)
         /\ output.blocks # <<>>
    /\ (displayed = <<>> => output.path = "all_passed")

C5_Witness ==
  /\ pc = "done"
  /\ Len(assessment_data) = 2
  /\ displayed = <<>>
  /\ selected_lifts = <<"squat", "deadlift">>
  /\ output.path = "all_passed"
  /\ output.progressions = <<<<2, "squat">>, <<2, "deadlift">>>>

(* C6: in the customized plan the top issues are the distinct areas of the   *)
(* failed rows, each once, by descending number of failed rows, areas of     *)
(* equal number in the order of their first failed row; the counts add up to *)
(* the number of failed rows.                                                *)
C6_TopIssues ==
  Customized =>
    LET iss == output.issues
    IN /\ ToSet(iss) = ToSet(FailedAreas)
       /\ Len(iss) = Cardinality(ToSet(FailedAreas))
       /\ \A i \in DOMAIN iss, j \in DOMAIN iss :
            i < j =>
              \/ FailedCount(iss[i]) > FailedCount(iss[j])
              \/ /\ FailedCount(iss[i]) = FailedCount(iss[j])
                 /\ FirstFailed(iss[i]) < FirstFailed(iss[j])
       /\ \A i \in DOMAIN iss :
            output.sorted_areas[i] = <<iss[i], FailedCount(iss[i])>>
       /\ SumCounts(output.sorted_areas, 1) = Len(failed_tests)

C6_Witness ==
  /\ Customized
  /\ failed_tests = <<3, 4, 5, 6, 7>>
  /\ output.issues = <<"Bench Setup", "Hip Flexion", "Muscle Soreness">>

(* C7: the customized plan has min(5, n) corrective blocks for n failed      *)
(* rows: the first rows of failed_tests, in its order, each with the row's   *)
(* solutions 1 to 3 numbered 1 to 3.                                         *)
C7_ExerciseBlocks ==
  Customized =>
    LET n == Len(failed_tests)
        b == output.blocks
    IN /\ Len(b) = (IF n < 5 THEN n ELSE 5)
       /\ \A k \in DOMAIN b :
            LET row == assessment_data[failed_tests[k]]
            IN /\ b[k].idx = failed_tests[k]
               /\ b[k].Area = row.Area
               /\ b[k].Test = row.Test
               /\ b[k].solutions = <<<<1, row.Solution_1>>,
                                     <<2, row.Solution_2>>,
                                     <<3, row.Solution_3>>>>

C7_Witness ==
  /\ Customized
  /\ failed_tests = <<2, 3, 4, 5, 6, 7, 8>>
  /\ Len(output.blocks) = 5
  /\ output.blocks[2].Area = "Muscle Soreness"
  /\ output.issues[2] = "Bench Setup"
  /\ output.blocks[1].solutions = <<<<1, 21>>, <<2, 22>>, <<3, 23>>>>

(* C8: under a lift the customized plan prints the tips of the failed rows   *)
(* whose Solution_4 is present and whose area is in that lift's list, once   *)
(* each, in failure order; only selected lifts with a tip get a section, in  *)
(* selection order.                                                          *)
C8_Tips ==
  Customized =>
    LET Expected(L) ==
          LET rows == SelectSeq(failed_tests,
                        LAMBDA i : /\ assessment_data[i].Solution_4 # NaN
                                   /\ assessment_data[i].Area
                                        \in ToSet(LIFT_SPECIFIC_TESTS[L]))
          IN [k \in DOMAIN rows |->
                <<assessment_data[rows[k]].Area, assessment_data[rows[k]].Solution_4>>]
        shown == SelectSeq(selected_lifts, LAMBDA L : Expected(L) # <<>>)
    IN /\ Len(output.tips) = Len(shown)
       /\ \A s \in DOMAIN output.tips :
            /\ output.tips[s].lift = shown[s]
            /\ output.tips[s].lines = Expected(shown[s])

C8_Witness ==
  /\ Customized
  /\ selected_lifts = <<"squat", "bench", "deadlift">>
  /\ failed_tests = <<1, 2, 3, 4, 5, 6>>
  /\ Len(output.tips) = 2
  /\ output.tips[1].lift = "squat"
  /\ output.tips[2].lift = "deadlift"
  /\ output.tips[1].lines = <<<<"Hip Flexion", 14>>, <<"Hip Flexion", 54>>, <<"Hip Flexion", 64>>>>
  /\ output.tips[2].lines = output.tips[1].lines

(* C9: once the table is loaded and every prompt is answered validly in the  *)
(* end, the run reaches its end; the loop ends only with every row reached,  *)
(* and generate_warmup_plan is called once, with the final failed_tests.     *)
C9_Terminates ==
  /\ (pc = "select") ~> (pc = "done")
  /\ [](LoopOver => index = Len(assessment_data) + 1)
  /\ [](Len(calls) <= 1)
  /\ [](pc = "done" => calls = <<failed_tests>>)
  /\ [](pc # "done" => calls = <<>>)

C9_Witness ==
  /\ pc = "done"
  /\ Len(assessment_data) = 3
  /\ index = 4
  /\ failed_tests = <<2, 3>>
  /\ calls = <<<<2, 3>>>>

(* C10: the number announced before the loop is the number of tests the      *)
(* user is prompted on.                                                      *)
C10_AnnouncedCount ==
  LoopOver => announced = Cardinality(prompted)

====
